---- MODULE Spec2Model ----
(***************************************************************************)
(* Model of the mfd-kvm Hypervisor Facade (KVMHypervisor): the workflows    *)
(* that issue remote commands, react to their results and poll external    *)
(* state.  One Facade call runs at a time (single thread of control).  The  *)
(* remote host, the virsh adapter, the clock and the background copy        *)
(* process are the environment: every result they hand back is chosen       *)
(* nondeterministically from the outcomes the operation distinguishes.      *)
(*                                                                         *)
(*   op     the Facade method being executed ("idle" between calls)         *)
(*   pc     position inside that method                                     *)
(*   args   the arguments of the call                                       *)
(*   loc    the local variables of the method                               *)
(*   calls  the external calls issued so far by this call, in order         *)
(*   ret    the outcome of the call: NoRet while running, then a return     *)
(*          value or a raised exception                                     *)
(*   now    the host clock read by time()                                   *)
(*   proc   the state of the background copy process                        *)
(*   numvfs the number of VFs the kernel currently exposes on the PF        *)
(***************************************************************************)
EXTENDS Integers, Sequences, FiniteSets, TLC

VARIABLES op, pc, args, loc, calls, ret, now, proc, numvfs

vars == <<op, pc, args, loc, calls, ret, now, proc, numvfs>>

---------------------------------------------------------------------------
(* Bounds of the model *)

\* largest VM list returned by list_vms
MaxVms == 3
\* largest VF count requested or present
MaxVfs == 3
\* largest number of controllers requested from attach_pci_controllers
MaxDevices == 5
\* largest caller-supplied timeout
MaxTimeout == 3
\* largest network-data table
MaxTable == 3
\* largest free-memory reading, in steps of 500 MB
MaxReading == 90
\* largest number of tries given to get_mng_ip_for_vm
MaxTries == 3

---------------------------------------------------------------------------
(* Shared vocabulary *)

\* VMs are named by their position in the list_vms table
VmNames == 1..MaxVms

VmStates == {"running", "shut off", "paused"}

\* time() is measured from the entry of the current call; once the clock
\* reaches ClockCap every timeout of the model has elapsed
ClockCap == MaxTimeout + 2

Min(a, b) == IF a < b THEN a ELSE b

NoRet == [kind |-> "none"]
NoArgs == [none |-> TRUE]
NoLoc == [none |-> TRUE]

Returned(v) == [kind |-> "return", value |-> v]

Raised(e) == [kind |-> "raise", exc |-> e]

\* every method ends in pc = "done" with its outcome in ret
Finish(r) ==
    /\ pc' = "done"
    /\ ret' = r

\* the caller picks the outcome up; the Facade is idle again
Return ==
    /\ pc = "done"
    /\ op' = "idle"
    /\ pc' = "idle"
    /\ args' = NoArgs
    /\ loc' = NoLoc
    /\ calls' = <<>>
    /\ ret' = NoRet
    /\ proc' = "none"
    /\ now' = 0
    /\ UNCHANGED numvfs

\* a method is entered only from idle
Enter(name, a, l, firstpc) ==
    /\ op = "idle"
    /\ op' = name
    /\ pc' = firstpc
    /\ args' = a
    /\ loc' = l
    /\ calls' = <<>>
    /\ ret' = NoRet

Init ==
    /\ op = "idle"
    /\ pc = "idle"
    /\ args = NoArgs
    /\ loc = NoLoc
    /\ calls = <<>>
    /\ ret = NoRet
    /\ now = 0
    /\ proc = "none"
    /\ numvfs \in 0..MaxVfs

---------------------------------------------------------------------------
(* create_vm: build the virt-install command, execute it, retry once on a  *)
(* recognised rejection.                                                   *)

\* how the disk of the VM is given: no disk, a disk used in place, a disk
\* cloned to target_hd_clone_disk first
DiskModes == {"none", "inplace", "clone"}

DefaultCloneTimeout == 1000

\* stderr classes of a failed virt-install
StderrKinds == {"osinfo_required", "install_method_required", "other"}

OsinfoSuffix == "--osinfo detect=on,require=off"
ImportSuffix == "--import"

DiskToken(p) ==
    CASE p.disk = "none" -> "--disk=none"
      [] p.disk = "inplace" -> "--disk path=source"
      [] p.disk = "clone" -> "--disk path=destination"

BootToken(p) ==
    IF p.disk = "none" THEN "--boot=network,hd,uefi" ELSE "--boot=hd,uefi"

\* variant: the architecture override comes after the graphics mode
BuildCommand_ArchLast(p) ==
    <<"virt-install", "--name", "--memory", "--vcpus", "--machine", "--noautoconsole">>
    \o (IF p.large_vcpu THEN <<"--iommu", "--features">> ELSE <<>>)
    \o <<"--network", "--os-variant", DiskToken(p)>>
    \o <<BootToken(p), "--graphics">>
    \o (IF p.arch THEN <<"--arch">> ELSE <<>>)
    \o (IF p.cpu THEN <<"--cpu">> ELSE <<>>)

\* the virt-install command line as the sequence of its options
BuildCommand(p) ==
    <<"virt-install", "--name", "--memory", "--vcpus", "--machine", "--noautoconsole">>
    \o (IF p.large_vcpu THEN <<"--iommu", "--features">> ELSE <<>>)
    \o <<"--network", "--os-variant", DiskToken(p)>>
    \o (IF p.arch THEN <<"--arch">> ELSE <<>>)
    \o <<BootToken(p), "--graphics">>
    \o (IF p.cpu THEN <<"--cpu">> ELSE <<>>)


\* variant: the two recognised rejections get each other's suffix
RetrySuffix_Swapped(stderr) ==
    CASE stderr = "osinfo_required" -> ImportSuffix
      [] stderr = "install_method_required" -> OsinfoSuffix
      [] OTHER -> ""

\* variant: every failure is retried
RetrySuffix_Always(stderr) ==
    CASE stderr = "install_method_required" -> ImportSuffix
      [] OTHER -> OsinfoSuffix

\* the suffix the retry appends for a recognised rejection, "" for none
RetrySuffix(stderr) ==
    CASE stderr = "osinfo_required" -> OsinfoSuffix
      [] stderr = "install_method_required" -> ImportSuffix
      [] OTHER -> ""

\* one execution of virt-install and what it answered
VirtInstall(argv, ok, stderr) ==
    [cmd |-> "virt-install", argv |-> argv, ok |-> ok, stderr |-> stderr]

CloneCall(t, ok) == [cmd |-> "clone_vm_hdd_image", timeout |-> t, ok |-> ok]

VMParamsSet ==
    [name : {1, 2}, disk : DiskModes, clone_timeout : {0, 2},
     arch : BOOLEAN, large_vcpu : BOOLEAN, cpu : BOOLEAN]

\* variant: the caller's clone timeout is ignored
CloneTimeout_AlwaysDefault(p) == DefaultCloneTimeout

\* clone_timeout 0 stands for None
CloneTimeout(p) == IF p.clone_timeout = 0 THEN DefaultCloneTimeout ELSE p.clone_timeout

CreateVmBegin ==
    /\ \E p \in VMParamsSet :
         /\ p.disk # "clone" => p.clone_timeout = 0
         /\ Enter("create_vm", p, [command |-> <<>>],
                  IF p.disk = "clone" THEN "cv_clone" ELSE "cv_exec")
    /\ UNCHANGED <<now, proc, numvfs>>

\* clone_vm_hdd_image runs to completion before the command is executed
CreateVmClone ==
    /\ op = "create_vm" /\ pc = "cv_clone"
    /\ \E ok \in BOOLEAN :
         /\ calls' = Append(calls, CloneCall(CloneTimeout(args), ok))
         /\ IF ok THEN pc' = "cv_exec" /\ ret' = ret
            ELSE Finish(Raised([type |-> "KVMHypervisorException", from |-> "clone"]))
    /\ UNCHANGED <<op, args, loc, now, proc, numvfs>>

\* what the transport raises for a failed command
ExecutionError(stderr) == [type |-> "KVMHypervisorExecutionException", stderr |-> stderr]

\* first execution of virt-install
CreateVmExec ==
    /\ op = "create_vm" /\ pc = "cv_exec"
    /\ LET command == BuildCommand(args) IN
         \E ok \in BOOLEAN, stderr \in StderrKinds :
            /\ ok => stderr = "other"
            /\ calls' = Append(calls, VirtInstall(command, ok, stderr))
            /\ IF ok
                  THEN /\ loc' = [command |-> command]
                       /\ Finish(Returned(args.name))
                  ELSE IF RetrySuffix(stderr) # ""
                  THEN /\ loc' = [command |-> Append(command, RetrySuffix(stderr))]
                       /\ pc' = "cv_retry"
                       /\ ret' = ret
                  ELSE /\ loc' = [command |-> command]
                       /\ Finish(Raised(ExecutionError(stderr)))
    /\ UNCHANGED <<op, args, now, proc, numvfs>>

\* variant: a recognised rejection of the retry is retried as well
RetriedAgain_WhenRecognised(stderr) == RetrySuffix(stderr) # ""

\* whether a failed retry is retried in its turn: never
RetriedAgain(stderr) == FALSE

\* the single retry with the corrected command
CreateVmRetry ==
    /\ op = "create_vm" /\ pc = "cv_retry"
    /\ \E ok \in BOOLEAN, stderr \in StderrKinds :
         /\ ok => stderr = "other"
         /\ calls' = Append(calls, VirtInstall(loc.command, ok, stderr))
         /\ IF ok
               THEN Finish(Returned(args.name))
               ELSE IF RetriedAgain(stderr)
               THEN pc' = "cv_retry" /\ ret' = ret
               ELSE Finish(Raised(ExecutionError(stderr)))
    /\ UNCHANGED <<op, args, loc, now, proc, numvfs>>

---------------------------------------------------------------------------
(* SR-IOV VF management: set_number_of_vfs_for_pf[_by_pci] and              *)
(* check_number_of_vfs[_by_pci].  args.by tells the two spellings apart:    *)
(* "interface" addresses the PF through /sys/class/net/<interface>/device,  *)
(* "pci" through /sys/bus/pci/devices/<address>.                            *)

PfSpellings == {"interface", "pci"}

BusyStderr == "Device or resource busy"
NoSuchFileStderr == "No such file or directory"

\* return codes the transport accepts for the first sriov_numvfs write, and
\* for every other command
FirstWriteCodes == {0, 1}
DefaultCodes == {0}

\* what the kernel can answer to "echo n > sriov_numvfs": the count changes
\* only from or to zero, a PF with VFs may be busy, and anything can fail
WriteOutcomes(n) ==
    (IF numvfs = 0 \/ n = 0 \/ n = numvfs
        THEN {[rc |-> 0, stderr |-> "", after |-> n]} ELSE {})
    \cup (IF numvfs # 0
        THEN {[rc |-> 1, stderr |-> BusyStderr, after |-> numvfs]} ELSE {})
    \cup {[rc |-> 1, stderr |-> "other", after |-> numvfs],
          [rc |-> 2, stderr |-> "other", after |-> numvfs]}

WriteCall(n, codes, o) ==
    [cmd |-> "echo", node |-> "sriov_numvfs", value |-> n,
     expected_return_codes |-> codes, rc |-> o.rc, stderr |-> o.stderr]


\* variant: any return code 1 is taken for busy
IsBusy_AnyFailure(o) == o.rc = 1

\* the first write reported the busy error
IsBusy(o) == o.rc = 1 /\ o.stderr = BusyStderr


\* variant: the VF count is verified whatever the caller asked for
AfterWrites_AlwaysCheck(check) == "ck_list"

\* where set_number_of_vfs goes once the write(s) are through
AfterWrites(check) == IF check THEN "ck_list" ELSE "sv_return"


\* variant: the write is issued without looking for the interface
FirstStep_NoLookup(by) == "sv_write"

\* what the call does first: by interface name it looks the interface up,
\* by PCI address it writes at once
FirstStep(by) == IF by = "interface" THEN "sv_ls" ELSE "sv_write"

SetNumberOfVfsBegin ==
    /\ \E by \in PfSpellings, n \in 0..MaxVfs, check \in BOOLEAN :
         Enter("set_number_of_vfs", [by |-> by, vfs_count |-> n, check |-> check],
               NoLoc, FirstStep(by))
    /\ UNCHANGED <<now, proc, numvfs>>

\* set_number_of_vfs_for_pf first lists /sys/class/net/<interface>
SetNumberOfVfsLs ==
    /\ op = "set_number_of_vfs" /\ pc = "sv_ls"
    /\ \E found \in BOOLEAN :
         /\ calls' = Append(calls, [cmd |-> "ls", node |-> "interface", ok |-> found])
         /\ IF found
               THEN pc' = "sv_write" /\ ret' = ret
               ELSE Finish(Raised([type |-> "NotFoundInterfaceKVM"]))
    /\ UNCHANGED <<op, args, loc, now, proc, numvfs>>

\* the first write of the desired count; return code 1 is accepted
SetNumberOfVfsWrite ==
    /\ op = "set_number_of_vfs" /\ pc = "sv_write"
    /\ \E o \in WriteOutcomes(args.vfs_count) :
         /\ calls' = Append(calls, WriteCall(args.vfs_count, FirstWriteCodes, o))
         /\ numvfs' = o.after
         /\ IF o.rc \notin FirstWriteCodes
               THEN Finish(Raised(ExecutionError(o.stderr)))
               ELSE /\ pc' = IF IsBusy(o) THEN "sv_reset" ELSE AfterWrites(args.check)
                    /\ ret' = ret
    /\ UNCHANGED <<op, args, loc, now, proc>>

\* busy: disable SR-IOV first
SetNumberOfVfsReset ==
    /\ op = "set_number_of_vfs" /\ pc = "sv_reset"
    /\ \E o \in WriteOutcomes(0) :
         /\ calls' = Append(calls, WriteCall(0, DefaultCodes, o))
         /\ numvfs' = o.after
         /\ IF o.rc \notin DefaultCodes
               THEN Finish(Raised(ExecutionError(o.stderr)))
               ELSE pc' = "sv_rewrite" /\ ret' = ret
    /\ UNCHANGED <<op, args, loc, now, proc>>

\* busy: then write the desired count again
SetNumberOfVfsRewrite ==
    /\ op = "set_number_of_vfs" /\ pc = "sv_rewrite"
    /\ \E o \in WriteOutcomes(args.vfs_count) :
         /\ calls' = Append(calls, WriteCall(args.vfs_count, DefaultCodes, o))
         /\ numvfs' = o.after
         /\ IF o.rc \notin DefaultCodes
               THEN Finish(Raised(ExecutionError(o.stderr)))
               ELSE pc' = AfterWrites(args.check) /\ ret' = ret
    /\ UNCHANGED <<op, args, loc, now, proc>>

\* check=False: nothing left to do
SetNumberOfVfsReturn ==
    /\ op = "set_number_of_vfs" /\ pc = "sv_return"
    /\ Finish(Returned("None"))
    /\ UNCHANGED <<op, args, loc, calls, now, proc, numvfs>>

\* what "ls -l <PF>/virtfn*" can answer: one symlink line per VF, the
\* "No such file or directory" failure when the glob matches nothing, or
\* some other failure of the command
ListOutcomes ==
    (IF numvfs > 0
        THEN {[rc |-> 0, stderr |-> "", stdout |-> [i \in 1..numvfs |-> i - 1]]}
        ELSE {[rc |-> 2, stderr |-> NoSuchFileStderr, stdout |-> <<>>]})
    \cup {[rc |-> 1, stderr |-> "other", stdout |-> <<>>]}

\* return codes the transport accepts for the virtfn listing
ListCodes == {0, 2}

\* the number of VFs a listing shows
CountVfs(o) == IF o.stderr = NoSuchFileStderr THEN 0 ELSE Len(o.stdout)


\* variant: only a count lower than expected is reported
CheckOutcome_LowerOnly(expected, actual) ==
    IF actual >= expected
       THEN Returned("None")
       ELSE Raised([type |-> "VFExceptionKVM", expected |-> expected, actual |-> actual])

\* the outcome of comparing the listed count with the expectation
CheckOutcome(expected, actual) ==
    IF actual = expected
       THEN Returned("None")
       ELSE Raised([type |-> "VFExceptionKVM", expected |-> expected, actual |-> actual])

CheckNumberOfVfsBegin ==
    /\ \E by \in PfSpellings, n \in 0..MaxVfs :
         Enter("check_number_of_vfs", [by |-> by, vfs_count |-> n], NoLoc, "ck_list")
    /\ UNCHANGED <<now, proc, numvfs>>

\* check_number_of_vfs[_by_pci], called directly or as the last step of
\* set_number_of_vfs_for_pf[_by_pci]: one listing, one comparison
CheckNumberOfVfs ==
    /\ op \in {"check_number_of_vfs", "set_number_of_vfs"} /\ pc = "ck_list"
    /\ \E o \in ListOutcomes :
         /\ calls' = Append(calls, [cmd |-> "ls", node |-> "virtfn", rc |-> o.rc,
                                    stderr |-> o.stderr, stdout |-> o.stdout])
         /\ IF o.rc \notin ListCodes
               THEN Finish(Raised(ExecutionError(o.stderr)))
               ELSE Finish(CheckOutcome(args.vfs_count, CountVfs(o)))
    /\ UNCHANGED <<op, args, loc, now, proc, numvfs>>

---------------------------------------------------------------------------
(* wait_for_vm_state, wait_for_vm_up, wait_for_vm_down: poll the VM status  *)
(* until its State is the target or the timeout has elapsed.                *)

WaitEntries == {"wait_for_vm_state", "wait_for_vm_up", "wait_for_vm_down"}

\* the state an entry point waits for; wait_for_vm_state takes it as argument
WaitTarget(entry, state) ==
    CASE entry = "wait_for_vm_up" -> "running"
      [] entry = "wait_for_vm_down" -> "shut off"
      [] OTHER -> state


\* variant: the start time is forgotten
WithinTimeout_NoStart(t, start, timeout) == t < timeout

\* the loop condition: the timeout has not elapsed yet
WithinTimeout(t, start, timeout) == t - start < timeout

\* the clock after d more ticks
Later(d) == Min(now + d, ClockCap)

\* the longest log of commands a polling call is followed for: more than any
\* call needs whose timeout is MaxTimeout ticks or fewer
LogCap == 2 * MaxTimeout + 4

WaitForVmStateBegin ==
    /\ \E entry \in WaitEntries, name \in VmNames, state \in VmStates,
          timeout \in 0..MaxTimeout, start \in 0..1 :
         /\ Enter("wait_for_vm_state",
                  [entry |-> entry, name |-> name,
                   state |-> WaitTarget(entry, state), timeout |-> timeout],
                  [start |-> start], "ws_time")
         /\ now' = start
    /\ UNCHANGED <<proc, numvfs>>

\* while time() - start < timeout
WaitForVmStateTime ==
    /\ op = "wait_for_vm_state" /\ pc = "ws_time"
    /\ Len(calls) < LogCap
    /\ \E d \in 0..1 :
         /\ now' = Later(d)
         /\ calls' = Append(calls, [cmd |-> "time", value |-> Later(d)])
         /\ IF WithinTimeout(Later(d), loc.start, args.timeout)
               THEN pc' = "ws_poll" /\ ret' = ret
               ELSE Finish(Returned(FALSE))
    /\ UNCHANGED <<op, args, loc, proc, numvfs>>

\* the status matches: return True
StateMatches(status, target) == status = target

\* get_vm_status(name)["State"] == state
WaitForVmStatePoll ==
    /\ op = "wait_for_vm_state" /\ pc = "ws_poll"
    /\ \E status \in VmStates :
         /\ calls' = Append(calls, [cmd |-> "get_vm_status", vm |-> args.name,
                                    State |-> status])
         /\ IF StateMatches(status, args.state)
               THEN Finish(Returned(TRUE))
               ELSE pc' = "ws_sleep" /\ ret' = ret
    /\ UNCHANGED <<op, args, loc, now, proc, numvfs>>

\* sleep(interval): at least the interval passes
WaitForVmStateSleep ==
    /\ op = "wait_for_vm_state" /\ pc = "ws_sleep"
    /\ \E d \in 1..2 : now' = Later(d)
    /\ pc' = "ws_time"
    /\ UNCHANGED <<op, args, loc, calls, ret, proc, numvfs>>

---------------------------------------------------------------------------
(* stop_all_vms(force) and start_all_vms(): list the VMs, then for each VM  *)
(* issue the stop/start and wait for its target state.                      *)

\* the virsh request issued to one VM
VmRequest(opname, force) ==
    CASE opname = "start_all_vms" -> "start_vm"
      [] force -> "shutdown_vm"
      [] OTHER -> "shutdown_gracefully_vm"

\* the state the VM is then waited for
VmGoal(opname) == IF opname = "start_all_vms" THEN "running" ELSE "shut off"


\* variant: neither loop gives up early
GoesOn_Always(opname, reached) == TRUE

\* variant: both loops give up at the first failure
GoesOn_Never(opname, reached) == reached

\* whether the loop goes on to the next VM after a wait that returned
\* reached: start_all_vms gives up at the first VM that did not come up,
\* stop_all_vms carries on
GoesOn(opname, reached) == IF opname = "start_all_vms" THEN reached ELSE TRUE

AllVmsOps == {"start_all_vms", "stop_all_vms"}

AllVmsBegin ==
    /\ \E opname \in AllVmsOps, force \in BOOLEAN :
         /\ opname = "start_all_vms" => ~force
         /\ Enter(opname, [force |-> force],
                  [vms |-> <<>>, i |-> 1, all_ok |-> TRUE], "av_list")
    /\ UNCHANGED <<now, proc, numvfs>>

\* get_list_of_vms()
AllVmsList ==
    /\ op \in AllVmsOps /\ pc = "av_list"
    /\ \E n \in 0..MaxVms :
         LET vms == [k \in 1..n |-> k] IN
           /\ calls' = Append(calls, [cmd |-> "list_vms", vms |-> vms])
           /\ loc' = [loc EXCEPT !.vms = vms]
           /\ IF n = 0
                 THEN Finish(Returned(TRUE))
                 ELSE pc' = "av_issue" /\ ret' = ret
    /\ UNCHANGED <<op, args, now, proc, numvfs>>

\* the stop/start of the current VM
AllVmsIssue ==
    /\ op \in AllVmsOps /\ pc = "av_issue"
    /\ calls' = Append(calls, [cmd |-> VmRequest(op, args.force), vm |-> loc.vms[loc.i]])
    /\ pc' = "av_wait"
    /\ UNCHANGED <<op, args, loc, ret, now, proc, numvfs>>

\* wait_for_vm_up / wait_for_vm_down of the current VM, then the next VM
AllVmsWait ==
    /\ op \in AllVmsOps /\ pc = "av_wait"
    /\ \E reached \in BOOLEAN :
         LET ok == loc.all_ok /\ reached IN
           /\ calls' = Append(calls, [cmd |-> "wait_for_vm_state", vm |-> loc.vms[loc.i],
                                      state |-> VmGoal(op), reached |-> reached])
           /\ loc' = [loc EXCEPT !.i = loc.i + 1, !.all_ok = ok]
           /\ IF loc.i < Len(loc.vms) /\ GoesOn(op, reached)
                 THEN pc' = "av_issue" /\ ret' = ret
                 ELSE Finish(Returned(ok))
    /\ UNCHANGED <<op, args, now, proc, numvfs>>

---------------------------------------------------------------------------
(* clone_vm_hdd_image(source, destination, timeout): start a background     *)
(* copy and poll it until it has finished or the timeout has elapsed.       *)

SourceImages == {"disk1.img", "disk2.img"}

DestinationImage == "destination.img"

\* seconds between two checks of the copy; one tick of the clock
CloneInterval == 30


\* variant: the timeout counter never reports that the time is up
TimeoutExpired_Never(t, start, timeout) == FALSE

\* bool(TimeoutCounter(timeout)): the timeout has elapsed
TimeoutExpired(t, start, timeout) == ~WithinTimeout(t, start, timeout)

CloneTimeoutError(source, timeout) ==
    [type |-> "KVMHypervisorException", reason |-> "cloning not finished in given timeout",
     source |-> source, timeout |-> timeout]


\* variant: the copy is killed on timeout
ProcAfterTimeout_Kill(p) == "killed"

\* what the call does to the copy process when it gives up: nothing
ProcAfterTimeout(p) == p

\* variant: the copy is started whatever is_file returned
SourceFound_Unchecked(exists) == TRUE

\* path_to_source_image.is_file(): the source is there to be copied
SourceFound(exists) == exists

\* the logged progress: destination size as a percentage of the source size
Progress(source_size, dest_size) == (dest_size * 100) \div source_size

CloneBegin ==
    /\ \E source \in SourceImages, timeout \in 0..MaxTimeout :
         Enter("clone_vm_hdd_image",
               [source |-> source, destination |-> DestinationImage, timeout |-> timeout],
               [start |-> 0], "cl_isfile")
    /\ UNCHANGED <<now, proc, numvfs>>

\* the source must be a file
CloneIsFile ==
    /\ op = "clone_vm_hdd_image" /\ pc = "cl_isfile"
    /\ \E exists \in BOOLEAN :
         /\ calls' = Append(calls, [cmd |-> "is_file", path |-> args.source, ok |-> exists])
         /\ IF SourceFound(exists)
               THEN pc' = "cl_start" /\ ret' = ret
               ELSE Finish(Raised([type |-> "FileNotFoundError", path |-> args.source]))
    /\ UNCHANGED <<op, args, loc, now, proc, numvfs>>

\* start_process("scp source destination"), then the timeout starts counting
CloneStart ==
    /\ op = "clone_vm_hdd_image" /\ pc = "cl_start"
    /\ calls' = Append(calls, [cmd |-> "start_process", command |-> "scp",
                               source |-> args.source, destination |-> args.destination])
    /\ proc' = "running"
    /\ loc' = [start |-> now]
    /\ pc' = "cl_loop"
    /\ UNCHANGED <<op, args, ret, now, numvfs>>

\* the remote copy finishes on its own
CopyFinishes ==
    /\ proc = "running"
    /\ proc' = "finished"
    /\ UNCHANGED <<op, pc, args, loc, calls, ret, now, numvfs>>


\* variant: the copy is taken for finished without looking
StillCloning_Never(p) == FALSE

\* process.running: the copy has not finished yet
StillCloning(p) == p = "running"

\* one turn of the polling loop: timeout first, then the liveness of the copy
CloneLoop ==
    /\ op = "clone_vm_hdd_image" /\ pc = "cl_loop"
    /\ Len(calls) < LogCap
    /\ \E d \in 0..1 :
         LET expired == TimeoutExpired(Later(d), loc.start, args.timeout) IN
           /\ now' = Later(d)
           /\ IF expired
                 THEN /\ calls' = Append(calls, [cmd |-> "timeout", expired |-> TRUE,
                                                 running |-> proc = "running"])
                      /\ proc' = ProcAfterTimeout(proc)
                      /\ Finish(Raised(CloneTimeoutError(args.source, args.timeout)))
                 ELSE /\ calls' = Append(calls, [cmd |-> "timeout", expired |-> FALSE,
                                                 running |-> proc = "running"])
                      /\ proc' = proc
                      /\ IF StillCloning(proc)
                            THEN pc' = "cl_progress" /\ ret' = ret
                            ELSE Finish(Returned(args.destination))
    /\ UNCHANGED <<op, args, loc, numvfs>>

\* still cloning: query both sizes, log the percentage, sleep 30 seconds
CloneProgress ==
    /\ op = "clone_vm_hdd_image" /\ pc = "cl_progress"
    /\ \E dest_size \in {10, 100} :
         calls' = Append(calls, [cmd |-> "log_progress", percent |-> Progress(100, dest_size),
                                 next_check |-> CloneInterval])
    /\ \E d \in 1..2 : now' = Later(d)
    /\ pc' = "cl_loop"
    /\ UNCHANGED <<op, args, loc, ret, proc, numvfs>>

---------------------------------------------------------------------------
(* attach_pci_controllers(name, number_of_devices, first_bus, first_slot,   *)
(* first_func, ...): shut the VM down, attach controllers at consecutive    *)
(* PCI addresses, start the VM again.                                       *)

\* the last slot and the last function of a PCI bus
MaxSlot == 31
MaxFunc == 7


\* variant: the function runs up to 8 before the slot changes
NextAddress_UpTo8(slot, func) ==
    IF func <= MaxFunc THEN [slot |-> slot, func |-> func + 1]
                       ELSE [slot |-> slot + 1, func |-> 0]

\* the candidate after (slot, func): functions first, then the next slot
NextAddress(slot, func) ==
    IF func < MaxFunc THEN [slot |-> slot, func |-> func + 1]
                      ELSE [slot |-> slot + 1, func |-> 0]

\* no candidate is left on the bus
Exhausted(slot) == slot > MaxSlot

DoubleUseStderr == "Attempted double use of PCI Address"

NotEnoughError(expected, created) ==
    [type |-> "KVMHypervisorException", reason |-> "Not enough free PCI devices",
     expected |-> expected, created |-> created]


\* variant: one controller too many
LoopOver_OneMore(created, wanted, slot) == created > wanted \/ Exhausted(slot)

\* the attach loop is over: enough controllers, or no address left
LoopOver(created, wanted, slot) == created >= wanted \/ Exhausted(slot)

\* variant: the VM is started only after a complete attachment
StartsVm_OnlyComplete(created, wanted) == created > 0 /\ created >= wanted

\* the VM is started again when at least one controller was attached
StartsVm(created, wanted) == created > 0

\* the outcome of the call once the loop is over
AttachOutcome(wanted, created) ==
    IF created < wanted THEN Raised(NotEnoughError(wanted, created))
                        ELSE Returned("None")

AttachBegin ==
    /\ \E name \in {1, 2}, n \in 0..MaxDevices, slot \in {MaxSlot - 1, MaxSlot},
          func \in {MaxFunc - 2, MaxFunc - 1, MaxFunc} :
         Enter("attach_pci_controllers",
               [name |-> name, number_of_devices |-> n, first_bus |-> 18,
                first_slot |-> slot, first_func |-> func],
               [slot |-> slot, func |-> func, created |-> 0], "ap_shutdown")
    /\ UNCHANGED <<now, proc, numvfs>>


\* variant: the VM is powered off the hard way
ShutdownRequest_Forced(name) == [cmd |-> "shutdown_vm", vm |-> name]

\* how attach_pci_controllers gets the VM off before it touches its devices
ShutdownRequest(name) == [cmd |-> "shutdown_gracefully_vm", vm |-> name]

\* shutdown_gracefully_vm(name)
AttachShutdown ==
    /\ op = "attach_pci_controllers" /\ pc = "ap_shutdown"
    /\ calls' = Append(calls, ShutdownRequest(args.name))
    /\ pc' = IF LoopOver(0, args.number_of_devices, loc.slot) THEN "ap_finish" ELSE "ap_attach"
    /\ UNCHANGED <<op, args, loc, ret, now, proc, numvfs>>


\* variant: an address collision aborts the call like any other failure
Tolerated_Never(stderr) == FALSE

\* the attach failure the loop logs and steps over
Tolerated(stderr) == stderr = DoubleUseStderr

\* attach one controller at the current candidate address; an address
\* collision is logged and the next candidate is tried
AttachOne ==
    /\ op = "attach_pci_controllers" /\ pc = "ap_attach"
    /\ \E ok \in BOOLEAN :
         LET created == IF ok THEN loc.created + 1 ELSE loc.created
             next == NextAddress(loc.slot, loc.func)
             stderr == IF ok THEN "" ELSE DoubleUseStderr
         IN
           /\ calls' = Append(calls, [cmd |-> "attach_device", vm |-> args.name,
                                      bus |-> args.first_bus, slot |-> loc.slot,
                                      func |-> loc.func, ok |-> ok,
                                      stderr |-> stderr])
           /\ IF ~ok /\ ~Tolerated(stderr)
                 THEN /\ Finish(Raised(ExecutionError(stderr)))
                      /\ loc' = loc
                 ELSE /\ loc' = [slot |-> next.slot, func |-> next.func,
                                 created |-> created]
                      /\ pc' = IF LoopOver(created, args.number_of_devices, next.slot)
                                   THEN "ap_finish" ELSE "ap_attach"
                      /\ ret' = ret
    /\ UNCHANGED <<op, args, now, proc, numvfs>>

\* start the VM if anything was attached, then report
AttachFinish ==
    /\ op = "attach_pci_controllers" /\ pc = "ap_finish"
    /\ calls' = IF StartsVm(loc.created, args.number_of_devices)
                    THEN Append(calls, [cmd |-> "start_vm", vm |-> args.name])
                    ELSE calls
    /\ Finish(AttachOutcome(args.number_of_devices, loc.created))
    /\ UNCHANGED <<op, args, loc, now, proc, numvfs>>

---------------------------------------------------------------------------
(* get_free_network_data(config_file, count): probe the (ip, mac) pairs of  *)
(* the network-data table until count of them turned out to be free.        *)

\* return codes of the liveness probe: answered, no answer, and the code the
\* probe gives for an address nobody answers for
ProbeCodes == {0, 1, 2}

NoResponseCode == 2


\* variant: every failed probe counts as free
IsFree_AnyFailure(rc) == rc # 0

\* the probed address is free
IsFree(rc) == rc = NoResponseCode

NoFreeNetworkData(count) ==
    [type |-> "KVMHypervisorException", reason |-> "no free network data", count |-> count]

\* the table is the list parse_network_data_conf returns; its pairs are named
\* by their line
GetFreeNetworkDataBegin ==
    /\ \E n \in 0..MaxTable, count \in 1..MaxTable :
         Enter("get_free_network_data",
               [count |-> count, table |-> [k \in 1..n |-> [ip |-> k, mac |-> k]]],
               [i |-> 1, free |-> <<>>], "fn_probe")
    /\ UNCHANGED <<now, proc, numvfs>>

\* probe the next candidate; return once count free pairs are collected
GetFreeNetworkDataProbe ==
    /\ op = "get_free_network_data" /\ pc = "fn_probe"
    /\ loc.i <= Len(args.table)
    /\ \E rc \in ProbeCodes :
         LET pair == args.table[loc.i]
             free == IF IsFree(rc) THEN Append(loc.free, pair) ELSE loc.free
         IN
           /\ calls' = Append(calls, [cmd |-> "ping", ip |-> pair.ip, rc |-> rc])
           /\ loc' = [i |-> loc.i + 1, free |-> free]
           /\ IF Len(free) >= args.count
                 THEN Finish(Returned(free))
                 ELSE pc' = "fn_probe" /\ ret' = ret
    /\ UNCHANGED <<op, args, now, proc, numvfs>>

\* the table is used up
GetFreeNetworkDataExhausted ==
    /\ op = "get_free_network_data" /\ pc = "fn_probe"
    /\ loc.i > Len(args.table)
    /\ Finish(Raised(NoFreeNetworkData(args.count)))
    /\ UNCHANGED <<op, args, loc, calls, now, proc, numvfs>>

---------------------------------------------------------------------------
(* get_dynamic_ram(vm_number): the RAM one VM gets when vm_number VMs share *)
(* the free memory of the host.  All amounts are in MB.                     *)

ReservedRam == 10000
MinRam == 2000
MaxRam == 10000

\* what the awk query over /proc/meminfo can print: nothing, or the free
\* memory
FreeReadings == {k * 500 : k \in 0..MaxReading}

AwkOutcomes ==
    {[rc |-> 1, stdout |-> <<>>]} \cup {[rc |-> 0, stdout |-> <<m>>] : m \in FreeReadings}


\* variant: nothing is kept back for the host
RamShare_NoReserve(free, vm_number) == free \div vm_number

\* the share of one VM once the host buffer is taken off
RamShare(free, vm_number) == (free - ReservedRam) \div vm_number

Clamp(x, lo, hi) == IF x < lo THEN lo ELSE IF x > hi THEN hi ELSE x

\* not even the minimum for every VM is free
NotEnoughRam(free, vm_number) == free < MinRam * vm_number

DynamicRam(free, vm_number) ==
    IF NotEnoughRam(free, vm_number)
       THEN Raised([type |-> "KVMHypervisorException", reason |-> "Not enough free RAM"])
       ELSE Returned(Clamp(RamShare(free, vm_number), MinRam, MaxRam))

GetDynamicRamBegin ==
    /\ \E n \in 1..MaxVms : Enter("get_dynamic_ram", [vm_number |-> n], NoLoc, "dr_query")
    /\ UNCHANGED <<now, proc, numvfs>>

\* one query, then the arithmetic; no output gives the minimum
GetDynamicRam ==
    /\ op = "get_dynamic_ram" /\ pc = "dr_query"
    /\ \E o \in AwkOutcomes :
         /\ calls' = Append(calls, [cmd |-> "awk", rc |-> o.rc, stdout |-> o.stdout])
         /\ IF o.stdout = <<>>
               THEN Finish(Returned(MinRam))
               ELSE Finish(DynamicRam(o.stdout[1], args.vm_number))
    /\ UNCHANGED <<op, args, loc, now, proc, numvfs>>

---------------------------------------------------------------------------
(* attach_device(name, device_config) and detach_device(name,               *)
(* device_config): read the state of the VM and hand it to the virsh        *)
(* adapter, which builds and executes the attach-device / detach-device     *)
(* command.                                                                *)

DeviceOps == {"attach_device", "detach_device"}

\* the virsh subcommand of the Facade method
DeviceSubcommand(opname) ==
    IF opname = "attach_device" THEN "attach-device" ELSE "detach-device"


\* variant: the change is always made persistent
ConfigFlag_Always(status) == <<"--config">>

\* the persistence flag of the command: only for a VM that is not running
ConfigFlag(status) == IF status # "running" THEN <<"--config">> ELSE <<>>

\* VirshInterface.attach_device / detach_device(name, device_config, status)
DeviceCommand(opname, status) ==
    <<"virsh", DeviceSubcommand(opname), "name", "--file", "device_config">>
    \o ConfigFlag(status)

AttachDeviceBegin ==
    /\ \E opname \in DeviceOps, name \in VmNames :
         Enter(opname, [name |-> name], [status |-> "unknown"], "ad_status")
    /\ UNCHANGED <<now, proc, numvfs>>

\* get_vm_status(name)["State"]
AttachDeviceStatus ==
    /\ op \in DeviceOps /\ pc = "ad_status"
    /\ \E status \in VmStates :
         /\ calls' = Append(calls, [cmd |-> "get_vm_status", vm |-> args.name,
                                    State |-> status])
         /\ loc' = [status |-> status]
    /\ pc' = "ad_virsh"
    /\ UNCHANGED <<op, args, ret, now, proc, numvfs>>

\* the adapter executes the command; its failure reaches the caller
AttachDeviceVirsh ==
    /\ op \in DeviceOps /\ pc = "ad_virsh"
    /\ \E ok \in BOOLEAN :
         /\ calls' = Append(calls, [cmd |-> "virsh", vm |-> args.name,
                                    status |-> loc.status,
                                    argv |-> DeviceCommand(op, loc.status),
                                    ok |-> ok])
         /\ IF ok THEN Finish(Returned("None"))
                  ELSE Finish(Raised([type |-> "VirshException"]))
    /\ UNCHANGED <<op, args, loc, now, proc, numvfs>>

---------------------------------------------------------------------------
(* set_trunk(pf_interface, action, vlan_id, vf_id): add a VLAN to, or       *)
(* remove it from, the trunk of a VF.                                       *)

TrunkActions == {"add", "rem", "not_supported_action"}


\* variant: the action is not looked at
SupportedAction_Any(action) == TRUE

SupportedAction(action) == action \in {"add", "rem"}

UnsupportedAction(action) ==
    [type |-> "KVMHypervisorException", reason |-> "Unsupported action", action |-> action]

\* echo <action> <vlan_id> > /sys/class/net/<pf_interface>/device/sriov/<vf_id>/trunk
TrunkWrite(action, vlan_id, vf_id, ok) ==
    [cmd |-> "echo", node |-> "trunk", action |-> action, vlan |-> vlan_id,
     vf |-> vf_id, ok |-> ok]

SetTrunkBegin ==
    /\ \E action \in TrunkActions, vlan_id \in {100, 200}, vf_id \in 0..MaxVfs :
         Enter("set_trunk", [action |-> action, vlan_id |-> vlan_id, vf_id |-> vf_id],
               NoLoc, "st_action")
    /\ UNCHANGED <<now, proc, numvfs>>

\* the action is validated, then written
SetTrunk ==
    /\ op = "set_trunk" /\ pc = "st_action"
    /\ IF ~SupportedAction(args.action)
          THEN /\ calls' = calls
               /\ Finish(Raised(UnsupportedAction(args.action)))
          ELSE \E ok \in BOOLEAN :
                 /\ calls' = Append(calls, TrunkWrite(args.action, args.vlan_id,
                                                      args.vf_id, ok))
                 /\ IF ok THEN Finish(Returned("None"))
                          ELSE Finish(Raised(ExecutionError("other")))
    /\ UNCHANGED <<op, args, loc, now, proc, numvfs>>

---------------------------------------------------------------------------
(* detach_interfaces(vm_list): for every VM find the (host VF, VM VF) PCI   *)
(* pairs and detach each of them.                                           *)

\* the pairs get_pci_for_host_vf_and_vm_vf can find on one VM
PairCounts == 0..2


\* variant: a failed detach ends the sweep
DetachOutcome_Raises(ok) == IF ok THEN "detached" ELSE "raised"

\* what becomes of one detach_vf: the interface is detached, or the failure
\* is logged
DetachOutcome(ok) == IF ok THEN "detached" ELSE "logged"

\* where the sweep goes when k pairs of the current VM are left
AfterPair(k) == IF k > 0 THEN "di_detach" ELSE "di_pairs"

DetachInterfacesBegin ==
    /\ \E n \in 0..MaxVms :
         Enter("detach_interfaces", [vm_list |-> [k \in 1..n |-> k]],
               [v |-> 1, left |-> 0, iface |-> 0], "di_pairs")
    /\ UNCHANGED <<now, proc, numvfs>>

\* the next VM of the list: get_pci_for_host_vf_and_vm_vf(vm)
DetachInterfacesPairs ==
    /\ op = "detach_interfaces" /\ pc = "di_pairs"
    /\ loc.v <= Len(args.vm_list)
    /\ \E k \in PairCounts :
         /\ calls' = Append(calls, [cmd |-> "get_pci_for_host_vf_and_vm_vf",
                                    vm |-> args.vm_list[loc.v], pairs |-> k])
         /\ loc' = [v |-> IF k > 0 THEN loc.v ELSE loc.v + 1, left |-> k, iface |-> 0]
         /\ pc' = AfterPair(k)
    /\ UNCHANGED <<op, args, ret, now, proc, numvfs>>

\* prepare_vf_xml and detach_vf of one pair, and the message logged for it
DetachInterfacesDetach ==
    /\ op = "detach_interfaces" /\ pc = "di_detach"
    /\ \E ok \in BOOLEAN :
         LET vm == args.vm_list[loc.v]
             iface == loc.iface + 1
             attempt == [cmd |-> "detach_vf", vm |-> vm, iface |-> iface, ok |-> ok]
         IN IF DetachOutcome(ok) = "raised"
               THEN /\ calls' = Append(calls, attempt)
                    /\ loc' = loc
                    /\ Finish(Raised(ExecutionError("other")))
               ELSE /\ calls' = calls \o <<attempt,
                                           [cmd |-> "log", vm |-> vm, iface |-> iface,
                                            message |-> DetachOutcome(ok)]>>
                    /\ loc' = [v |-> IF loc.left > 1 THEN loc.v ELSE loc.v + 1,
                               left |-> loc.left - 1, iface |-> iface]
                    /\ pc' = AfterPair(loc.left - 1)
                    /\ ret' = ret
    /\ UNCHANGED <<op, args, now, proc, numvfs>>

\* the list is through
DetachInterfacesReturn ==
    /\ op = "detach_interfaces" /\ pc = "di_pairs"
    /\ loc.v > Len(args.vm_list)
    /\ Finish(Returned("None"))
    /\ UNCHANGED <<op, args, loc, calls, now, proc, numvfs>>

---------------------------------------------------------------------------
(* VirshInterface.get_mng_ip_for_vm(mac, vm_id, tries): ask the QEMU guest  *)
(* agent for the interface addresses of the VM until the interface with the *)
(* given MAC shows a usable IPv4 address.                                   *)

\* the address the agent reports for the MAC: a routable one, a loopback
\* one, a link-local one, or none at all
AddressKinds == {"routable", "loopback", "link_local", "none"}

\* what one query can give: no answer from the agent, or the address found
\* for the MAC
AgentAnswers ==
    {[answered |-> FALSE, address |-> "none"]}
    \cup {[answered |-> TRUE, address |-> a] : a \in AddressKinds}


\* variant: link-local addresses are taken
IsMngIp_LinkLocal(address) == address \in {"routable", "link_local"}

\* the address can be used as management IP
IsMngIp(address) == address \notin {"loopback", "link_local", "none"}

\* the error once the tries are used up
MngIpError(answered, mac, tries) ==
    IF answered THEN [type |-> "VMMngIpNotAvailableKVM", mac |-> mac]
                ELSE [type |-> "VMNotRunKVM", tries |-> tries]

GetMngIpBegin ==
    /\ \E mac \in {1, 2}, vm_id \in {1, 2}, tries \in 1..MaxTries :
         Enter("get_mng_ip_for_vm", [mac |-> mac, vm_id |-> vm_id, tries |-> tries],
               [i |-> 1, answered |-> FALSE], "mi_query")
    /\ UNCHANGED <<now, proc, numvfs>>

\* one try: virsh domifaddr <vm_id> --source agent, then the sleep before
\* the next one
GetMngIpQuery ==
    /\ op = "get_mng_ip_for_vm" /\ pc = "mi_query"
    /\ Len(calls) < LogCap
    /\ \E a \in AgentAnswers :
         LET answered == loc.answered \/ a.answered IN
           /\ calls' = Append(calls, [cmd |-> "domifaddr", vm |-> args.vm_id,
                                      try |-> loc.i, answered |-> a.answered,
                                      address |-> a.address])
           /\ loc' = [i |-> loc.i + 1, answered |-> answered]
           /\ IF a.answered /\ IsMngIp(a.address)
                 THEN Finish(Returned([mac |-> args.mac, address |-> a.address]))
                 ELSE IF loc.i >= args.tries
                 THEN Finish(Raised(MngIpError(answered, args.mac, args.tries)))
                 ELSE pc' = "mi_query" /\ ret' = ret
    /\ UNCHANGED <<op, args, now, proc, numvfs>>

---------------------------------------------------------------------------
(* get_vf_id_from_pci(interface, pci) and get_vf_id_by_pci(pf_pci_address,  *)
(* vf_pci_address): find the VF whose virtfnN symlink points at the given   *)
(* PCI address.  A number printed in the listing is the sequence of its     *)
(* hexadecimal digits.                                                     *)

\* the slot all VFs of the PF sit on, and the VFs that may exist
VfSlot == 10
VfIds == {0, 1, 19, 25}

\* how the kernel prints the slot (two digits) and the function of an address
SlotText(n) == <<n \div 16, n % 16>>
FuncText(n) == IF n < 16 THEN <<n>> ELSE <<n \div 16, n % 16>>

\* "virtfnN -> ../0000:5e:ss.f": VF N is function N of the slot
VfLine(n) == [vf |-> n, slot |-> SlotText(VfSlot), func |-> FuncText(n)]

\* what "ls -l <PF>/virtfn*" can answer: the lines of the VFs present, or a
\* failure
VfListings ==
    {[rc |-> 0, stdout |-> {VfLine(n) : n \in present}] : present \in SUBSET VfIds}
    \cup {[rc |-> 2, stdout |-> {}]}

RECURSIVE DigitsValue(_, _)

\* int(text, base)
DigitsValue(digits, base) ==
    IF digits = <<>> THEN 0
    ELSE base * DigitsValue(SubSeq(digits, 1, Len(digits) - 1), base)
         + digits[Len(digits)]


\* variant: the digits are read as a decimal number
HexValue_Decimal(digits) == DigitsValue(digits, 10)

\* the number a field of the symlink target stands for
HexValue(digits) == DigitsValue(digits, 16)

\* the VFs of the listing whose target is the address
MatchingVfs(stdout, pci) ==
    {l.vf : l \in {m \in stdout : /\ HexValue(m.slot) = pci.slot
                                  /\ HexValue(m.func) = pci.func}}

NotMatched(by) == [type |-> "VFExceptionKVM", reason |-> "Not matched VFs", for |-> by]

VfIdOutcome(by, stdout, pci) ==
    LET found == MatchingVfs(stdout, pci) IN
      IF found = {} THEN Raised(NotMatched(by))
      ELSE Returned(CHOOSE v \in found : \A w \in found : v <= w)

GetVfIdBegin ==
    /\ \E by \in PfSpellings, slot \in {VfSlot, 16}, func \in VfIds :
         Enter("get_vf_id", [by |-> by, pci |-> [slot |-> slot, func |-> func]],
               NoLoc, "vi_list")
    /\ UNCHANGED <<now, proc, numvfs>>

\* one listing, then the search through its lines
GetVfId ==
    /\ op = "get_vf_id" /\ pc = "vi_list"
    /\ \E o \in VfListings :
         /\ calls' = Append(calls, [cmd |-> "ls", node |-> "virtfn", rc |-> o.rc,
                                    stdout |-> o.stdout])
         /\ IF o.rc # 0
               THEN Finish(Raised(ExecutionError("other")))
               ELSE Finish(VfIdOutcome(args.by, o.stdout, args.pci))
    /\ UNCHANGED <<op, args, loc, now, proc, numvfs>>

---------------------------------------------------------------------------

Next ==
    \/ Return
    \/ CreateVmBegin
    \/ CreateVmClone
    \/ CreateVmExec
    \/ CreateVmRetry
    \/ SetNumberOfVfsBegin
    \/ SetNumberOfVfsLs
    \/ SetNumberOfVfsWrite
    \/ SetNumberOfVfsReset
    \/ SetNumberOfVfsRewrite
    \/ SetNumberOfVfsReturn
    \/ CheckNumberOfVfsBegin
    \/ CheckNumberOfVfs
    \/ WaitForVmStateBegin
    \/ WaitForVmStateTime
    \/ WaitForVmStatePoll
    \/ WaitForVmStateSleep
    \/ AllVmsBegin
    \/ AllVmsList
    \/ AllVmsIssue
    \/ AllVmsWait
    \/ CloneBegin
    \/ CloneIsFile
    \/ CloneStart
    \/ CopyFinishes
    \/ CloneLoop
    \/ CloneProgress
    \/ AttachBegin
    \/ AttachShutdown
    \/ AttachOne
    \/ AttachFinish
    \/ GetFreeNetworkDataBegin
    \/ GetFreeNetworkDataProbe
    \/ GetFreeNetworkDataExhausted
    \/ GetDynamicRamBegin
    \/ GetDynamicRam
    \/ AttachDeviceBegin
    \/ AttachDeviceStatus
    \/ AttachDeviceVirsh
    \/ SetTrunkBegin
    \/ SetTrunk
    \/ DetachInterfacesBegin
    \/ DetachInterfacesPairs
    \/ DetachInterfacesDetach
    \/ DetachInterfacesReturn
    \/ GetMngIpBegin
    \/ GetMngIpQuery
    \/ GetVfIdBegin
    \/ GetVfId

Spec == Init /\ [][Next]_vars

\* the steps the waiting calls take on their own: a call that was entered
\* runs on, statement after statement, in the single thread of its caller
Proceeds ==
    \/ WaitForVmStateTime
    \/ WaitForVmStatePoll
    \/ WaitForVmStateSleep
    \/ CloneIsFile
    \/ CloneStart
    \/ CloneLoop
    \/ CloneProgress
    \/ GetMngIpQuery

\* the same program with a caller's thread that does not stop inside a
\* waiting call; nothing is assumed of the VM, the copy or the guest agent
FairSpec == Spec /\ WF_vars(Proceeds)

---------------------------------------------------------------------------
(* Properties *)

\* the calls of one kind, in the order they were issued
CallsOf(cmd) == SelectSeq(calls, LAMBDA c : c.cmd = cmd)

Last(q) == q[Len(q)]

VirtInstalls == CallsOf("virt-install")

RecognisedRejections == {"osinfo_required", "install_method_required"}

\* C1: when the first virt-install of create_vm fails with the "OS name is
\* required" (resp. "An install method must be specified") rejection, the
\* same command is executed exactly once more with
\* " --osinfo detect=on,require=off" (resp. " --import") appended, and when
\* that retry succeeds create_vm returns the VM's name.
C1_RetryOnRecognisedRejection ==
    (/\ op = "create_vm"
     /\ Len(VirtInstalls) >= 1
     /\ ~VirtInstalls[1].ok
     /\ VirtInstalls[1].stderr \in RecognisedRejections)
    => /\ Len(VirtInstalls) <= 2
       /\ pc = "done" <=> Len(VirtInstalls) = 2
       /\ Len(VirtInstalls) = 2 =>
            /\ VirtInstalls[2].argv =
                 Append(VirtInstalls[1].argv,
                        IF VirtInstalls[1].stderr = "osinfo_required"
                           THEN "--osinfo detect=on,require=off" ELSE "--import")
            /\ VirtInstalls[2].ok => ret = [kind |-> "return", value |-> args.name]

C1_Witness ==
    /\ op = "create_vm" /\ pc = "done"
    /\ Len(VirtInstalls) = 2
    /\ VirtInstalls[1].stderr = "osinfo_required"
    /\ VirtInstalls[2].ok
    /\ Last(VirtInstalls[2].argv) = "--osinfo detect=on,require=off"
    /\ ret = [kind |-> "return", value |-> args.name]

\* C2: when the first virt-install of create_vm fails with a stderr that
\* matches neither recognised rejection, the execution exception reaches the
\* caller unchanged and virt-install has been executed exactly once.
C2_OtherFailurePropagates ==
    (/\ op = "create_vm"
     /\ Len(VirtInstalls) >= 1
     /\ ~VirtInstalls[1].ok
     /\ VirtInstalls[1].stderr \notin RecognisedRejections)
    => /\ Len(VirtInstalls) = 1
       /\ pc = "done"
       /\ ret = [kind |-> "raise",
                 exc |-> [type |-> "KVMHypervisorExecutionException",
                          stderr |-> VirtInstalls[1].stderr]]

C2_Witness ==
    /\ op = "create_vm" /\ pc = "done"
    /\ Len(VirtInstalls) = 1
    /\ ~VirtInstalls[1].ok
    /\ VirtInstalls[1].stderr = "other"
    /\ ret.kind = "raise"

NumvfsWrites == CallsOf("echo")

ListedVms == IF Len(CallsOf("list_vms")) = 0 THEN <<>> ELSE CallsOf("list_vms")[1].vms

VmWaits == CallsOf("wait_for_vm_state")

EveryVmReached ==
    /\ Len(VmWaits) = Len(ListedVms)
    /\ \A i \in 1..Len(VmWaits) : VmWaits[i].reached

\* the VMs a request of this kind was issued to, in order
Requested(cmd) == [i \in 1..Len(CallsOf(cmd)) |-> CallsOf(cmd)[i].vm]

\* C4 as stated: start_all_vms issues a start to every listed VM regardless
\* of an earlier VM failing to reach "running", and returns True only if
\* every VM reached "running".
C4_StartsEveryVm ==
    (op = "start_all_vms" /\ pc = "done")
    => /\ Requested("start_vm") = ListedVms
       /\ ret = [kind |-> "return", value |-> TRUE] => EveryVmReached

\* C4: start_all_vms issues the starts in list order and stops at the first
\* VM that fails to reach "running": every VM up to and including that one
\* has been started, none after it; it returns True only if every listed VM
\* reached "running", and False otherwise.
C4_StartsUntilFirstFailure ==
    (op = "start_all_vms" /\ pc = "done")
    => /\ Requested("start_vm") = SubSeq(ListedVms, 1, Len(VmWaits))
       /\ \A i \in 1..Len(VmWaits) : VmWaits[i].state = "running"
       /\ \A i \in 1..(Len(VmWaits) - 1) : VmWaits[i].reached
       /\ Len(VmWaits) < Len(ListedVms) => ~Last(VmWaits).reached
       /\ ret = [kind |-> "return", value |-> EveryVmReached]

C4_Witness ==
    /\ op = "start_all_vms" /\ pc = "done"
    /\ Len(ListedVms) >= 2
    /\ Len(CallsOf("start_vm")) = 1
    /\ ~VmWaits[1].reached
    /\ ret = [kind |-> "return", value |-> FALSE]

\* C5: stop_all_vms issues a stop (shutdown_gracefully_vm, or shutdown_vm
\* when force is set) to every listed VM even when an earlier VM fails to
\* reach "shut off", and returns True if and only if every listed VM reached
\* that state.
C5_StopsEveryVm ==
    (op = "stop_all_vms" /\ pc = "done")
    => /\ Requested(IF args.force THEN "shutdown_vm" ELSE "shutdown_gracefully_vm")
            = ListedVms
       /\ Len(CallsOf(IF args.force THEN "shutdown_gracefully_vm" ELSE "shutdown_vm")) = 0
       /\ \A i \in 1..Len(VmWaits) : VmWaits[i].state = "shut off"
       /\ ret = [kind |-> "return", value |-> EveryVmReached]

C5_Witness ==
    /\ op = "stop_all_vms" /\ pc = "done"
    /\ args.force
    /\ Len(ListedVms) >= 2
    /\ ~VmWaits[1].reached
    /\ Len(CallsOf("shutdown_vm")) = Len(ListedVms)
    /\ ret = [kind |-> "return", value |-> FALSE]

Attaches == CallsOf("attach_device")

\* the number of controllers attached so far
Attached == Len(SelectSeq(Attaches, LAMBDA c : c.ok))

Listed == IF Last(calls).stderr = "No such file or directory" THEN 0
                                                              ELSE Len(Last(calls).stdout)

\* C8: check_number_of_vfs[_by_pci] returns normally if and only if the
\* number of virtfn symlinks listed equals the expected count, a listing that
\* fails with "No such file or directory" counting as zero VFs; any mismatch
\* raises the VF count-mismatch error naming the expected and the actual
\* number.
C8_CheckNumberOfVfs ==
    (/\ op = "check_number_of_vfs" /\ pc = "done"
     /\ \/ Last(calls).rc = 0
        \/ Last(calls).stderr = "No such file or directory")
    => /\ ret.kind = "return" <=> Listed = args.vfs_count
       /\ Listed # args.vfs_count =>
            ret = [kind |-> "raise",
                   exc |-> [type |-> "VFExceptionKVM", expected |-> args.vfs_count,
                            actual |-> Listed]]

C8_Witness ==
    /\ op = "check_number_of_vfs" /\ pc = "done"
    /\ Last(calls).stderr = "No such file or directory"
    /\ args.vfs_count = 0
    /\ ret.kind = "return"

\* the polls and the clock readings of wait_for_vm_state
IsMatch(c) == c.cmd = "get_vm_status" /\ c.State = args.state

IsElapsed(c) == c.cmd = "time" /\ c.value - loc.start >= args.timeout

\* C9: wait_for_vm_state(name, state) returns True as soon as a polled status
\* has State equal to the target, and returns False if and only if the
\* timeout elapses without the target having been observed; wait_for_vm_up
\* and wait_for_vm_down are this wait with targets "running" and "shut off".
C9_WaitForVmState ==
    op = "wait_for_vm_state"
    => /\ \A i \in 1..Len(calls) :
            /\ IsMatch(calls[i]) =>
                 /\ i = Len(calls) /\ pc = "done"
                 /\ ret = [kind |-> "return", value |-> TRUE]
            /\ IsElapsed(calls[i]) =>
                 /\ i = Len(calls) /\ pc = "done"
                 /\ ret = [kind |-> "return", value |-> FALSE]
       /\ pc = "done" => IsMatch(Last(calls)) \/ IsElapsed(Last(calls))
       /\ args.entry = "wait_for_vm_up" => args.state = "running"
       /\ args.entry = "wait_for_vm_down" => args.state = "shut off"

C9_Witness ==
    /\ op = "wait_for_vm_state" /\ pc = "done"
    /\ args.entry = "wait_for_vm_down"
    /\ Len(CallsOf("get_vm_status")) >= 2
    /\ ret = [kind |-> "return", value |-> FALSE]

\* C10: clone_vm_hdd_image: if the timeout elapses while the background copy
\* is still running, a KVMHypervisorException naming the source path and the
\* timeout value is raised, and the copy process is not killed or stopped by
\* the call.
C10_CloneTimeout ==
    op = "clone_vm_hdd_image"
    => /\ proc \in {"none", "running", "finished"}
       /\ \A i \in 1..Len(calls) : calls[i].cmd \notin {"kill", "stop"}
       /\ (pc = "done" /\ Last(calls).cmd = "timeout" /\ Last(calls).expired) =>
            /\ ret = [kind |-> "raise",
                      exc |-> [type |-> "KVMHypervisorException",
                               reason |-> "cloning not finished in given timeout",
                               source |-> args.source, timeout |-> args.timeout]]
            /\ Last(calls).running => proc \in {"running", "finished"}

C10_Witness ==
    /\ op = "clone_vm_hdd_image" /\ pc = "done"
    /\ Last(calls).cmd = "timeout" /\ Last(calls).expired /\ Last(calls).running
    /\ proc = "running"
    /\ args.timeout > 0
    /\ ret.kind = "raise" /\ ret.exc.source = args.source

\* C11: clone_vm_hdd_image verifies the source file before anything else:
\* the first thing the call does is the is_file check of the source, and when
\* the source is not a file the call ends there with the not-found error
\* naming the source, no copy process having been started and no remote
\* command having been issued.
C11_CloneSourceMissing ==
    (op = "clone_vm_hdd_image" /\ Len(calls) >= 1)
    => /\ calls[1].cmd = "is_file" /\ calls[1].path = args.source
       /\ ~calls[1].ok =>
            /\ pc = "done"
            /\ ret = [kind |-> "raise",
                      exc |-> [type |-> "FileNotFoundError", path |-> args.source]]
            /\ Len(calls) = 1
            /\ proc = "none"

C11_Witness ==
    /\ op = "clone_vm_hdd_image" /\ pc = "done"
    /\ Len(calls) = 1 /\ calls[1].cmd = "is_file" /\ ~calls[1].ok
    /\ Len(CallsOf("start_process")) = 0
    /\ proc = "none"
    /\ ret.kind = "raise" /\ ret.exc.type = "FileNotFoundError"

Has(q, x) == \E i \in 1..Len(q) : q[i] = x

Clones == CallsOf("clone_vm_hdd_image")

\* C12: in create_vm with a disk and a clone destination, clone_vm_hdd_image
\* has completed before any virt-install is executed, it was called once with
\* params.clone_timeout, or with 1000 when no clone timeout is set, and the
\* --disk path of every virt-install is the clone destination; without
\* cloning clone_vm_hdd_image is never called and the --disk path of a disk
\* used in place is the source disk.
C12_CloneBeforeInstall ==
    op = "create_vm"
    => IF args.disk = "clone"
          THEN /\ Len(Clones) <= 1
               /\ Len(VirtInstalls) >= 1 =>
                    /\ Len(Clones) = 1
                    /\ calls[1] = Clones[1]
                    /\ Clones[1].ok
               /\ Len(Clones) = 1 =>
                    Clones[1].timeout =
                      IF args.clone_timeout = 0 THEN 1000 ELSE args.clone_timeout
               /\ \A i \in 1..Len(VirtInstalls) :
                    /\ Has(VirtInstalls[i].argv, "--disk path=destination")
                    /\ ~Has(VirtInstalls[i].argv, "--disk path=source")
          ELSE /\ Len(Clones) = 0
               /\ \A i \in 1..Len(VirtInstalls) :
                    /\ ~Has(VirtInstalls[i].argv, "--disk path=destination")
                    /\ args.disk = "inplace" =>
                         Has(VirtInstalls[i].argv, "--disk path=source")

C12_Witness ==
    /\ op = "create_vm" /\ pc = "done"
    /\ args.disk = "clone" /\ args.clone_timeout # 0
    /\ Len(calls) = 2
    /\ calls[1].cmd = "clone_vm_hdd_image" /\ calls[1].timeout = args.clone_timeout
    /\ calls[2].cmd = "virt-install" /\ Has(calls[2].argv, "--disk path=destination")
    /\ ret.kind = "return"

Probes == CallsOf("ping")

\* the pairs whose probe gave return code 2, in the order they were probed
FreePairs ==
    LET hits == SelectSeq(Probes, LAMBDA c : c.rc = 2)
    IN [k \in 1..Len(hits) |-> [ip |-> hits[k].ip, mac |-> hits[k].ip]]

\* C13: get_free_network_data(config, count) probes the candidates in table
\* order, takes a pair for free only when its probe gave the "no response"
\* return code 2, probes no further once count pairs are collected and
\* returns exactly those count pairs; when the table, empty or not, is used
\* up with fewer than count free pairs it raises KVMHypervisorException.
C13_GetFreeNetworkData ==
    op = "get_free_network_data"
    => /\ Len(Probes) <= Len(args.table)
       /\ \A i \in 1..Len(Probes) : Probes[i].ip = args.table[i].ip
       /\ Len(FreePairs) <= args.count
       /\ Len(FreePairs) = args.count =>
            /\ pc = "done"
            /\ Last(Probes).rc = 2
            /\ ret = [kind |-> "return", value |-> FreePairs]
       /\ (pc = "done" /\ Len(FreePairs) < args.count) =>
            /\ Len(Probes) = Len(args.table)
            /\ ret.kind = "raise" /\ ret.exc.type = "KVMHypervisorException"

C13_Witness ==
    /\ op = "get_free_network_data" /\ pc = "done"
    /\ args.count = 2 /\ Len(args.table) = MaxTable
    /\ Len(Probes) = 3
    /\ Probes[1].rc = 2 /\ Probes[2].rc = 1 /\ Probes[3].rc = 2
    /\ ret.kind = "return" /\ Len(ret.value) = 2
    /\ ret.value[1].ip = 1 /\ ret.value[2].ip = 3

\* the free memory the awk query of get_dynamic_ram printed
FreeRam == calls[1].stdout[1]

\* (free - 10000) / vm_number brought into the band [2000, 10000]
Banded ==
    LET share == (FreeRam - 10000) \div args.vm_number
    IN IF share < 2000 THEN 2000 ELSE IF share > 10000 THEN 10000 ELSE share

\* C14: get_dynamic_ram(vm_number) returns, for a free-memory reading,
\* (free - 10000) / vm_number clamped into [2000, 10000] MB (for two VMs
\* 18000 gives 4000, 40000 gives 10000, 13000 gives 2000), raises the "Not
\* enough free RAM" error when the free memory does not hold the minimum for
\* every VM (3000 for two VMs), and returns 2000 when the query printed
\* nothing; every returned value lies in [2000, 10000].
C14_GetDynamicRam ==
    (op = "get_dynamic_ram" /\ pc = "done")
    => /\ ret.kind = "return" => ret.value >= 2000 /\ ret.value <= 10000
       /\ calls[1].stdout = <<>> => ret = [kind |-> "return", value |-> 2000]
       /\ calls[1].stdout # <<>> =>
            /\ ret.kind = "raise" <=> FreeRam < 2000 * args.vm_number
            /\ ret.kind = "raise" => ret.exc.reason = "Not enough free RAM"
            /\ ret.kind = "return" => ret.value = Banded
            /\ args.vm_number = 2 =>
                 /\ FreeRam = 18000 => ret = [kind |-> "return", value |-> 4000]
                 /\ FreeRam = 40000 => ret = [kind |-> "return", value |-> 10000]
                 /\ FreeRam = 13000 => ret = [kind |-> "return", value |-> 2000]
                 /\ FreeRam = 3000 => ret.kind = "raise"

C14_Witness ==
    /\ op = "get_dynamic_ram" /\ pc = "done"
    /\ args.vm_number = 2
    /\ calls[1].stdout = <<18000>>
    /\ ret = [kind |-> "return", value |-> 4000]

\* C15: attach_device and detach_device read the state of the VM first and
\* hand that state to the virsh adapter, whose attach-device (resp.
\* detach-device) command carries the persistence flag --config if and only
\* if the state is not "running".
C15_ConfigFlagUnlessRunning ==
    op \in {"attach_device", "detach_device"}
    => /\ Len(calls) <= 2
       /\ Len(calls) >= 1 => calls[1].cmd = "get_vm_status" /\ calls[1].vm = args.name
       /\ pc = "done" => Len(calls) = 2
       /\ Len(calls) = 2 =>
            /\ calls[2].cmd = "virsh"
            /\ calls[2].status = calls[1].State
            /\ calls[2].argv[2] =
                 (IF op = "attach_device" THEN "attach-device" ELSE "detach-device")
            /\ calls[2].vm = args.name
            /\ Has(calls[2].argv, "--config") <=> calls[1].State # "running"
            /\ Has(calls[2].argv, "--config") => Last(calls[2].argv) = "--config"

C15_Witness ==
    /\ op = "detach_device" /\ pc = "done"
    /\ calls[1].State = "running"
    /\ calls[2].argv[2] = "detach-device"
    /\ ~Has(calls[2].argv, "--config")
    /\ ret.kind = "return"

\* C16: set_trunk accepts only the actions "add" and "rem": any other action
\* raises the "Unsupported action" error without a single command having
\* been issued, and "add" / "rem" issue exactly one write of
\* "<action> <vlan>" to the trunk node of the VF.
C16_SetTrunk ==
    (op = "set_trunk" /\ pc = "done")
    => IF args.action \in {"add", "rem"}
          THEN /\ Len(calls) = 1
               /\ calls[1] = [cmd |-> "echo", node |-> "trunk", action |-> args.action,
                               vlan |-> args.vlan_id, vf |-> args.vf_id,
                               ok |-> calls[1].ok]
               /\ ret.kind = "raise" => ret.exc.type # "KVMHypervisorException"
          ELSE /\ Len(calls) = 0
               /\ ret = [kind |-> "raise",
                         exc |-> [type |-> "KVMHypervisorException",
                                  reason |-> "Unsupported action",
                                  action |-> args.action]]

C16_Witness ==
    /\ op = "set_trunk" /\ pc = "done"
    /\ args.action = "not_supported_action"
    /\ calls = <<>>
    /\ ret.kind = "raise" /\ ret.exc.reason = "Unsupported action"

PairLookups == CallsOf("get_pci_for_host_vf_and_vm_vf")

Detaches == CallsOf("detach_vf")

\* the detach attempts made for one VM
DetachesOf(vm) == SelectSeq(Detaches, LAMBDA c : c.vm = vm)

\* C17: detach_interfaces(vm_list) is a best-effort sweep: it never raises
\* because a detach failed, every failed detach is logged, and every VM of
\* the list is processed, each of its interfaces getting its detach attempt,
\* whatever happened to the VMs and interfaces before it.
C17_DetachInterfacesSweep ==
    op = "detach_interfaces"
    => /\ ret.kind # "raise"
       /\ \A i \in 1..Len(calls) :
            calls[i].cmd = "detach_vf" =>
              /\ i < Len(calls)
              /\ calls[i + 1].cmd = "log"
              /\ calls[i + 1].vm = calls[i].vm /\ calls[i + 1].iface = calls[i].iface
              /\ calls[i + 1].message = (IF calls[i].ok THEN "detached" ELSE "logged")
       /\ pc = "done" =>
            /\ [i \in 1..Len(PairLookups) |-> PairLookups[i].vm] = args.vm_list
            /\ \A i \in 1..Len(PairLookups) :
                 Len(DetachesOf(PairLookups[i].vm)) = PairLookups[i].pairs

C17_Witness ==
    /\ op = "detach_interfaces" /\ pc = "done"
    /\ Len(args.vm_list) >= 2
    /\ PairLookups[1].pairs = 2
    /\ ~Detaches[1].ok
    /\ Len(DetachesOf(1)) = 2
    /\ Len(DetachesOf(2)) >= 1
    /\ ret.kind = "return"

AgentQueries == CallsOf("domifaddr")

\* the query gave, for the MAC, an address that is neither loopback nor
\* link-local
GaveMngIp(c) == c.answered /\ c.address = "routable"

\* C18: get_mng_ip_for_vm queries the guest agent at most tries times: it
\* returns the address of the given MAC as soon as a query gives one that is
\* neither loopback nor link-local, raises VMNotRunKVM after tries queries
\* none of which the agent answered, and raises VMMngIpNotAvailableKVM after
\* tries queries when the agent answered but had only loopback, link-local
\* or no addresses for that MAC.
C18_GetMngIp ==
    op = "get_mng_ip_for_vm"
    => /\ Len(AgentQueries) <= args.tries
       /\ \A i \in 1..Len(AgentQueries) :
            GaveMngIp(AgentQueries[i]) =>
              /\ i = Len(AgentQueries) /\ pc = "done"
              /\ ret = [kind |-> "return",
                        value |-> [mac |-> args.mac, address |-> "routable"]]
       /\ ret.kind = "return" => GaveMngIp(Last(AgentQueries))
       /\ ret.kind = "raise" =>
            /\ Len(AgentQueries) = args.tries
            /\ ret.exc.type \in {"VMNotRunKVM", "VMMngIpNotAvailableKVM"}
            /\ (\A i \in 1..args.tries : ~AgentQueries[i].answered)
                 => ret.exc.type = "VMNotRunKVM"
            /\ (\A i \in 1..args.tries : AgentQueries[i].answered)
                 => ret.exc.type = "VMMngIpNotAvailableKVM"
       /\ (pc = "done" /\ ~GaveMngIp(Last(AgentQueries))) => ret.kind = "raise"

C18_Witness ==
    /\ op = "get_mng_ip_for_vm" /\ pc = "done"
    /\ args.tries = MaxTries
    /\ Len(AgentQueries) = MaxTries
    /\ \A i \in 1..MaxTries :
         AgentQueries[i].answered /\ AgentQueries[i].address = "link_local"
    /\ ret.kind = "raise" /\ ret.exc.type = "VMMngIpNotAvailableKVM"

\* the place of a field in the order the specification lists: name, memory,
\* vcpus, machine type, console mode, IOMMU/APIC flags, network, os-variant,
\* disk, boot order, graphics mode, architecture override, install-method
\* suffix; 0 for what the list does not mention
ListedPlace(field) ==
    CASE field = "--name" -> 1
      [] field = "--memory" -> 2
      [] field = "--vcpus" -> 3
      [] field = "--machine" -> 4
      [] field = "--noautoconsole" -> 5
      [] field \in {"--iommu", "--features"} -> 6
      [] field = "--network" -> 7
      [] field = "--os-variant" -> 8
      [] field \in {"--disk=none", "--disk path=source", "--disk path=destination"} -> 9
      [] field \in {"--boot=network,hd,uefi", "--boot=hd,uefi"} -> 10
      [] field = "--graphics" -> 11
      [] field = "--arch" -> 12
      [] field \in {"--osinfo detect=on,require=off", "--import"} -> 13
      [] OTHER -> 0

\* the place of a field in the commands the tests expect: the architecture
\* override sits between disk and boot order, the CPU feature string after
\* the graphics mode
EmittedPlace(field) ==
    CASE field = "virt-install" -> 0
      [] field = "--name" -> 1
      [] field = "--memory" -> 2
      [] field = "--vcpus" -> 3
      [] field = "--machine" -> 4
      [] field = "--noautoconsole" -> 5
      [] field = "--iommu" -> 6
      [] field = "--features" -> 7
      [] field = "--network" -> 8
      [] field = "--os-variant" -> 9
      [] field \in {"--disk=none", "--disk path=source", "--disk path=destination"} -> 10
      [] field = "--arch" -> 11
      [] field \in {"--boot=network,hd,uefi", "--boot=hd,uefi"} -> 12
      [] field = "--graphics" -> 13
      [] field = "--cpu" -> 14
      [] field \in {"--osinfo detect=on,require=off", "--import"} -> 15
      [] OTHER -> 99

PointsAt(line) ==
    [slot |-> 16 * line.slot[1] + line.slot[2],
     func |-> IF Len(line.func) = 1 THEN line.func[1]
                                    ELSE 16 * line.func[1] + line.func[2]]

\* C20: get_vf_id_from_pci and get_vf_id_by_pci invert the VF-to-PCI lookup:
\* from the virtfnN listing of the PF they return the N of the line whose
\* target is the given VF PCI address, the function being read as a
\* hexadecimal number ("0a.19" is function 25, so VF 25 for it), and they
\* raise the VF "Not matched" error exactly when no line points at the
\* address.
C20_GetVfId ==
    (op = "get_vf_id" /\ pc = "done" /\ calls[1].rc = 0)
    => LET lines == calls[1].stdout IN
         /\ ret.kind = "return" =>
              \E l \in lines : l.vf = ret.value /\ PointsAt(l) = args.pci
         /\ ret.kind = "raise" <=> \A l \in lines : PointsAt(l) # args.pci
         /\ ret.kind = "raise" =>
              ret.exc = [type |-> "VFExceptionKVM", reason |-> "Not matched VFs",
                         for |-> args.by]
         /\ (args.pci = [slot |-> 10, func |-> 25]
              /\ [vf |-> 25, slot |-> <<0, 10>>, func |-> <<1, 9>>] \in lines)
             => ret = [kind |-> "return", value |-> 25]

C20_Witness ==
    /\ op = "get_vf_id" /\ pc = "done"
    /\ args.by = "pci"
    /\ args.pci = [slot |-> 10, func |-> 25]
    /\ Cardinality(calls[1].stdout) = 3
    /\ [vf |-> 25, slot |-> <<0, 10>>, func |-> <<1, 9>>] \in calls[1].stdout
    /\ ret = [kind |-> "return", value |-> 25]

\* C21: in one create_vm call virt-install is executed at most twice: when
\* the one automatic retry fails as well, be it with a recognised rejection,
\* the call ends with that failure raised to the caller and there is no
\* third execution.
C21_AtMostOneRetry ==
    op = "create_vm"
    => /\ Len(VirtInstalls) <= 2
       /\ (Len(VirtInstalls) = 2 /\ ~VirtInstalls[2].ok) =>
            /\ pc = "done"
            /\ ret = [kind |-> "raise",
                      exc |-> [type |-> "KVMHypervisorExecutionException",
                               stderr |-> VirtInstalls[2].stderr]]

C21_Witness ==
    /\ op = "create_vm" /\ pc = "done"
    /\ Len(VirtInstalls) = 2
    /\ VirtInstalls[1].stderr = "osinfo_required"
    /\ ~VirtInstalls[2].ok /\ VirtInstalls[2].stderr = "install_method_required"
    /\ ret.kind = "raise" /\ ret.exc.stderr = "install_method_required"

\* a sriov_numvfs write that failed for another reason than busy
FailedNotBusy(c) ==
    c.rc # 0 /\ ~(c.rc = 1 /\ c.stderr = "Device or resource busy")

\* C22: in set_number_of_vfs_for_pf[_by_pci], a sriov_numvfs write that
\* fails for any reason other than "device or resource busy" is propagated
\* as an execution error: the call ends right there with
\* KVMHypervisorExecutionException, with no write of 0 and no retried write
\* after it, and it does not go on as if the write had succeeded.
C22_NonBusyFailurePropagates ==
    op = "set_number_of_vfs" =>
        \A i \in 1..Len(calls) :
            (calls[i].cmd = "echo" /\ FailedNotBusy(calls[i]))
            => /\ i = Len(calls)
               /\ pc = "done"
               /\ ret = Raised(ExecutionError(calls[i].stderr))

\* the attach attempts that ran into an address already in use
Collided(c) == ~c.ok /\ c.stderr = "Attempted double use of PCI Address"

AddressOf(c) == <<c.bus, c.slot, c.func>>

\* C24: the addresses attach_pci_controllers tries start at (first_bus,
\* first_slot, first_func); each further candidate is the one before it with
\* the function raised by one, or, after function 7, the next slot with
\* function 0; no candidate has a function above 7, and no address is tried
\* twice in one call.
C24_CandidateAddresses ==
    op = "attach_pci_controllers" =>
        /\ Len(Attaches) >= 1 =>
             AddressOf(Attaches[1]) = <<args.first_bus, args.first_slot, args.first_func>>
        /\ \A i \in 1..Len(Attaches) :
             /\ Attaches[i].func \in 0..7
             /\ i < Len(Attaches) =>
                  AddressOf(Attaches[i + 1]) =
                      IF Attaches[i].func < 7
                         THEN <<Attaches[i].bus, Attaches[i].slot, Attaches[i].func + 1>>
                         ELSE <<Attaches[i].bus, Attaches[i].slot + 1, 0>>
        /\ \A i, j \in 1..Len(Attaches) :
             i # j => AddressOf(Attaches[i]) # AddressOf(Attaches[j])

C24_Witness ==
    /\ op = "attach_pci_controllers" /\ pc = "done"
    /\ args.first_slot = 30 /\ args.first_func = 6
    /\ Len(Attaches) = 4
    /\ AddressOf(Attaches[2]) = <<args.first_bus, 30, 7>>
    /\ AddressOf(Attaches[3]) = <<args.first_bus, 31, 0>>
    /\ AddressOf(Attaches[4]) = <<args.first_bus, 31, 1>>

\* C25: attach_pci_controllers asks for a graceful shutdown of the VM before
\* its first attach: the shutdown_gracefully_vm request for the named VM is
\* the first thing the call does, it is made once, and every attach attempt
\* comes after it.
C25_ShutdownBeforeAttach ==
    (op = "attach_pci_controllers" /\ Len(calls) >= 1) =>
        /\ calls[1] = [cmd |-> "shutdown_gracefully_vm", vm |-> args.name]
        /\ Len(CallsOf("shutdown_gracefully_vm")) = 1
        /\ Len(CallsOf("shutdown_vm")) = 0
        /\ \A i \in 1..Len(calls) : calls[i].cmd = "attach_device" => i > 1

C25_Witness ==
    /\ op = "attach_pci_controllers" /\ pc = "done"
    /\ calls[1].cmd = "shutdown_gracefully_vm"
    /\ Len(calls) >= 3
    /\ calls[2].cmd = "attach_device" /\ calls[2].ok

\* the virtfn listings of the call, by their position among its commands
VirtfnListings == {i \in 1..Len(calls) : calls[i].cmd = "ls" /\ calls[i].node = "virtfn"}

\* the number of VFs a listing showed
Shown(c) == IF c.stderr = "No such file or directory" THEN 0 ELSE Len(c.stdout)

\* C26: set_number_of_vfs_for_pf[_by_pci] with check enabled lists the VFs
\* only after its sriov_numvfs write(s) are through, exactly once and as the
\* last command of the call (no second look, no polling), and a count that
\* differs from the requested one ends the call with the mismatch error;
\* with check=False the call lists no VFs at all.
C26_CheckOnceAfterWrites ==
    op = "set_number_of_vfs" =>
        /\ Cardinality(VirtfnListings) <= 1
        /\ ~args.check => VirtfnListings = {}
        /\ \A i \in VirtfnListings :
             /\ i = Len(calls)
             /\ pc = "done"
             /\ Len(NumvfsWrites) >= 1
             /\ Last(NumvfsWrites).rc \in Last(NumvfsWrites).expected_return_codes
             /\ (calls[i].rc \in {0, 2} /\ Shown(calls[i]) # args.vfs_count) =>
                  ret = Raised([type |-> "VFExceptionKVM", expected |-> args.vfs_count,
                                actual |-> Shown(calls[i])])
        /\ (pc = "done" /\ args.check /\ VirtfnListings = {}) =>
             /\ ret.kind = "raise"
             /\ ret.exc.type \in {"KVMHypervisorExecutionException", "NotFoundInterfaceKVM"}

C26_Witness ==
    /\ op = "set_number_of_vfs" /\ pc = "done"
    /\ args.check /\ args.by = "pci"
    /\ Len(NumvfsWrites) = 1
    /\ VirtfnListings = {2}
    /\ Shown(calls[2]) # args.vfs_count
    /\ ret.kind = "raise" /\ ret.exc.type = "VFExceptionKVM"

\* C27: set_number_of_vfs_for_pf looks the interface up before any write to
\* sysfs: the lookup is the first command of the call, and when the
\* interface is not found the call ends with NotFoundInterfaceKVM without a
\* single sriov_numvfs write.
C27_InterfaceLookupFirst ==
    (op = "set_number_of_vfs" /\ args.by = "interface") =>
        /\ pc # "sv_ls" => Len(calls) >= 1
        /\ Len(calls) >= 1 => (calls[1].cmd = "ls" /\ calls[1].node = "interface")
        /\ Len(NumvfsWrites) >= 1 => calls[1].ok
        /\ (Len(calls) >= 1 /\ ~calls[1].ok) =>
             /\ Len(calls) = 1
             /\ pc = "done"
             /\ ret = Raised([type |-> "NotFoundInterfaceKVM"])

C27_Witness ==
    /\ op = "set_number_of_vfs" /\ args.by = "interface" /\ pc = "done"
    /\ Len(calls) = 1
    /\ calls[1].cmd = "ls" /\ ~calls[1].ok
    /\ ret.kind = "raise" /\ ret.exc.type = "NotFoundInterfaceKVM"

\* a turn of the clone loop that found the timeout not elapsed and the copy
\* still running
StillRunning(c) == c.cmd = "timeout" /\ ~c.expired /\ c.running

\* C28: clone_vm_hdd_image starts exactly one background copy process and
\* returns the destination path only after it has seen that process not
\* running; as long as the process runs and the timeout has not elapsed it
\* goes on polling: it logs the progress percentage, sleeps 30 seconds and
\* looks again.
C28_CloneWaitsForCopy ==
    op = "clone_vm_hdd_image" =>
        /\ Len(CallsOf("start_process")) <= 1
        /\ pc \in {"cl_loop", "cl_progress"} => Len(CallsOf("start_process")) = 1
        /\ (pc = "done" /\ ret.kind = "return") =>
             /\ ret.value = args.destination
             /\ Len(CallsOf("start_process")) = 1
             /\ Last(calls).cmd = "timeout"
             /\ ~Last(calls).expired /\ ~Last(calls).running
        /\ \A i \in 1..Len(calls) :
             /\ StillRunning(calls[i]) =>
                  /\ i = Len(calls) => pc = "cl_progress"
                  /\ i < Len(calls) =>
                       /\ calls[i + 1].cmd = "log_progress"
                       /\ calls[i + 1].percent \in 0..100
                       /\ calls[i + 1].next_check = 30
             /\ calls[i].cmd = "log_progress" =>
                  /\ StillRunning(calls[i - 1])
                  /\ i = Len(calls) => pc = "cl_loop"
                  /\ i < Len(calls) => calls[i + 1].cmd = "timeout"

C28_Witness ==
    /\ op = "clone_vm_hdd_image" /\ pc = "done"
    /\ ret = Returned(args.destination)
    /\ Len(CallsOf("log_progress")) = 2
    /\ CallsOf("log_progress")[1].percent = 10
    /\ Len(CallsOf("timeout")) = 3

\* C30: with a single caller, whenever set_number_of_vfs_for_pf[_by_pci]
\* called for N VFs with check enabled returns normally, the PF has exactly
\* N VFs, whether the first write went through directly or the call took the
\* busy path (write 0, write N again).
C30_ReturnMeansCount ==
    (op = "set_number_of_vfs" /\ args.check /\ pc = "done" /\ ret.kind = "return")
    => /\ numvfs = args.vfs_count
       /\ Len(NumvfsWrites) \in {1, 3}
       /\ Last(calls).cmd = "ls" /\ Last(calls).node = "virtfn"
       /\ Shown(Last(calls)) = args.vfs_count

C30_Witness ==
    /\ op = "set_number_of_vfs" /\ args.check /\ pc = "done"
    /\ ret.kind = "return"
    /\ args.vfs_count = 2
    /\ Len(NumvfsWrites) = 3
    /\ NumvfsWrites[1].stderr = "Device or resource busy"
    /\ numvfs = 2

WaitingOps == {"wait_for_vm_state", "clone_vm_hdd_image", "get_mng_ip_for_vm"}

\* the call is over: it returned a value or raised a typed error
Over == pc = "done" /\ (ret.kind = "return" \/ (ret.kind = "raise" /\ ret.exc.type # ""))

\* C29: every waiting operation terminates.  With sleeps that let time pass,
\* wait_for_vm_state, clone_vm_hdd_image and get_mng_ip_for_vm each
\* eventually return or raise a typed error, also when the VM never reaches
\* the state, the copy never finishes and the guest agent never answers.
C29_WaitingTerminates ==
    \A w \in WaitingOps : (op = w) ~> (op = w /\ Over)

\* the log of a waiting call stays below the length it is followed for
C29_LogWithinCap ==
    op \in WaitingOps => Len(calls) < LogCap

C29_Witness ==
    /\ op = "wait_for_vm_state" /\ pc = "done"
    /\ args.timeout = 3 /\ loc.start = 0
    /\ Len(CallsOf("get_vm_status")) = 3
    /\ \A i \in 1..3 : CallsOf("get_vm_status")[i].State # args.state
    /\ ret = Returned(FALSE)

====
